---- MODULE Spec2Model ----
(***************************************************************************)
(* Model of the voting bot in src/main.py: the Postgres tables (channels,  *)
(* candidates, votes, settings), the in-memory admin FSM state and         *)
(* ADD_CANDIDATE_MODE set, the clock, and the handlers that read and write *)
(* them.  A handler that awaits between its database statements is split   *)
(* at those awaits, so other handlers may run in between.                  *)
(***************************************************************************)
EXTENDS Integers, Sequences, FiniteSets, TLC

(* ------------------------------ bounds -------------------------------- *)
MaxTime == 2
MaxMinutes == 1
MaxId == 2
MaxLines == 2
MaxReq == 2
MaxCast == 3
MaxChats == 3
MaxVoters == 4

Users == 1..2
ChatIds == {"@g", "@h", "@i"}
Names == {<<"a">>, <<"A">>, <<"b">>}
Slots == 1..MaxReq

(* ---------------------------- program constants ----------------------- *)
ADMINS == {1}

NULL == -1
NoProbe == [op |-> "none"]
NoText == <<>>

Status == {"member", "left", "kicked", "error"}

AdminState == {"None", "add_channel", "remove_channel", "remove_candidate", "set_timer"}

VARIABLES
    now,            \* the clock read by now_utc() and by the database's NOW()
    settings,       \* table settings(key PRIMARY KEY, value)
    channels,       \* table channels, as get_channels returns it (newest first)
    candidates,     \* table candidates(id SERIAL PRIMARY KEY, name)
    nextId,         \* the SERIAL sequence behind candidates.id
    votes,          \* table votes(user_id PRIMARY KEY, candidate_id); the column
                    \* voted_at, which only the CSV export reads, is left out
    fsm,            \* aiogram FSM state of each user
    mode,           \* ADD_CANDIDATE_MODE
    reqs,           \* the cb_vote calls in flight, and how each ended
    probe,          \* the last call of a read-only function made on its own, and its result
    adds,           \* the add_candidates_auto calls in flight, and how each ended
    shown           \* the voting message each cb_vote call came from: the total
                    \* in its text, the rows of its keyboard, and how far the
                    \* call's rendering of a new text and keyboard has got

vars == <<now, settings, channels, candidates, nextId, votes, fsm, mode, reqs, probe, adds,
          shown>>

(* ------------------------------ text ---------------------------------- *)
DigitChars == <<"0", "1", "2", "3", "4", "5", "6", "7", "8", "9">>

IsDigitChar(c) == \E i \in 1..10 : DigitChars[i] = c

DigitValue(c) == (CHOOSE i \in 1..10 : DigitChars[i] = c) - 1

\* str.isdigit(): non-empty and every character a digit
isdigit(s) == Len(s) > 0 /\ \A i \in 1..Len(s) : IsDigitChar(s[i])

RECURSIVE int(_)
int(s) == IF Len(s) = 0 THEN 0
          ELSE 10 * int(SubSeq(s, 1, Len(s) - 1)) + DigitValue(s[Len(s)])

RECURSIVE str(_)
str(n) == IF n < 10 THEN <<DigitChars[n + 1]>>
          ELSE Append(str(n \div 10), DigitChars[(n % 10) + 1])

LowerChar(c) == IF c = "A" THEN "a" ELSE IF c = "B" THEN "b" ELSE c

LOWER(s) == [i \in 1..Len(s) |-> LowerChar(s[i])]

(* ------------------------------ helpers ------------------------------- *)
\* the administrator test answering yes to every caller
is_admin_anyone(uid) == TRUE

is_admin(uid) == uid \in ADMINS

\* datetime.isoformat() / datetime.fromisoformat(): the instant as text and back
isoformat(t) == str(t)

fromisoformat(v) == IF isdigit(v) THEN int(v) ELSE NULL

get_setting(key) ==
    IF \E r \in settings : r.key = key
    THEN (CHOOSE r \in settings : r.key = key).value
    ELSE NoText

set_setting(key, value) ==
    {r \in settings : r.key # key} \cup {[key |-> key, value |-> value]}

get_end_time == LET v == get_setting("end_time_utc")
                IN  IF v = NoText THEN NULL ELSE fromisoformat(v)

\* the deadline instant itself still counted as open
voting_is_open_le == LET end_time == get_end_time
                     IN  IF end_time = NULL THEN TRUE ELSE now <= end_time

voting_is_open == LET end_time == get_end_time
                  IN  IF end_time = NULL THEN TRUE ELSE now < end_time

\* an oracle error skipped instead of failing closed
RECURSIVE is_subscribed_from_failopen(_, _, _)
is_subscribed_from_failopen(chs, st, i) ==
    IF i > Len(chs) THEN TRUE
    ELSE IF st[chs[i]] \in {"left", "kicked"} THEN FALSE
    ELSE is_subscribed_from_failopen(chs, st, i + 1)

\* is_subscribed over the channel list chs, the oracle answering st[chat_id]
RECURSIVE is_subscribed_from(_, _, _)
is_subscribed_from(chs, st, i) ==
    IF i > Len(chs) THEN TRUE
    ELSE IF st[chs[i]] \in {"left", "kicked"} THEN FALSE
    ELSE IF st[chs[i]] = "error" THEN FALSE
    ELSE is_subscribed_from(chs, st, i + 1)

is_subscribed(chs, st) ==
    IF Len(chs) = 0 THEN TRUE ELSE is_subscribed_from(chs, st, 1)

(* ------------------------------ tables -------------------------------- *)
CandidateIds(cs) == {c.id : c \in cs}

\* the delete without the cascade to votes
DeleteCandidatesVotes_nocascade(gone) == votes

\* DELETE FROM candidates WHERE <c \in gone>, with votes ... ON DELETE CASCADE
DeleteCandidatesVotes(gone) == {v \in votes : v.candidate_id \notin CandidateIds(gone)}

\* a plain INSERT, as if votes had no primary key on user_id
UpsertVote_insert(uid, cid) == votes \cup {[user_id |-> uid, candidate_id |-> cid]}

\* the table replaced by the one new row: every other voter's ballot is lost
UpsertVote_replaceAll(uid, cid) == {[user_id |-> uid, candidate_id |-> cid]}

\* ON CONFLICT (user_id) DO NOTHING: the first ballot wins
UpsertVote_nothing(uid, cid) ==
    IF \E v \in votes : v.user_id = uid THEN votes
    ELSE votes \cup {[user_id |-> uid, candidate_id |-> cid]}

\* INSERT INTO votes ... ON CONFLICT (user_id) DO UPDATE SET candidate_id, voted_at
UpsertVote(uid, cid) ==
    {v \in votes : v.user_id # uid} \cup {[user_id |-> uid, candidate_id |-> cid]}

(* ------------------------------ tally -------------------------------- *)
NullVote == [user_id |-> NULL, candidate_id |-> NULL]

\* candidates c LEFT JOIN votes v ON v.candidate_id = c.id
LeftJoin(cs, vs) ==
    {[c |-> p[1], v |-> p[2]] : p \in {q \in cs \X vs : q[2].candidate_id = q[1].id}}
        \cup {[c |-> c, v |-> NullVote] :
                 c \in {d \in cs : \A v \in vs : v.candidate_id # d.id}}

\* ORDER BY id ASC, as a sequence
RECURSIVE OrderById(_)
OrderById(cs) ==
    IF cs = {} THEN <<>>
    ELSE LET first == CHOOSE c \in cs : \A d \in cs : c.id <= d.id
         IN  <<first>> \o OrderById(cs \ {first})

\* COUNT(*) in place of COUNT(v.user_id): the NULL row of the outer join counted
candidates_with_counts_countstar(cs, vs) ==
    LET joined == LeftJoin(cs, vs)
        groups == OrderById({j.c : j \in joined})
        cntstar(g) == Cardinality({j \in joined : j.c = g})
    IN  [i \in 1..Len(groups) |-> <<groups[i].id, groups[i].name, cntstar(groups[i])>>]

\* GROUP BY c.id, c.name with COUNT(v.user_id), which skips the NULLs of the
\* outer join: the rows <<id, name, cnt>> in ascending id
candidates_with_counts(cs, vs) ==
    LET joined == LeftJoin(cs, vs)
        groups == OrderById({j.c : j \in joined})
        cnt(g) == Cardinality({j \in joined : j.c = g /\ j.v.user_id # NULL})
    IN  [i \in 1..Len(groups) |-> <<groups[i].id, groups[i].name, cnt(groups[i])>>]

\* SELECT COUNT(*) FROM votes
total_votes(vs) == Cardinality(vs)

(* ------------------------------ views --------------------------------- *)
\* total = sum(cnt for _cid, _n, cnt in rows)
RECURSIVE sum_cnt(_)
sum_cnt(rows) == IF Len(rows) = 0 THEN 0 ELSE Head(rows)[3] + sum_cnt(Tail(rows))

\* the percentage rounded up instead of cut off
pct_ceil(cnt, total) == IF total > 0 THEN (cnt * 100 + total - 1) \div total ELSE 0

\* pct = int((cnt / total) * 100) if total > 0 else 0: the float quotient
\* times 100, cut off at the point.  For total below 50 that is the integer
\* quotient of cnt * 100 by total; 29 of 50 is the first pair for which the
\* float product (57.99...) lies below the exact value (58).
pct(cnt, total) == IF total > 0 THEN (cnt * 100) \div total ELSE 0

RemoveAt(rows, k) == SubSeq(rows, 1, k - 1) \o SubSeq(rows, k + 1, Len(rows))

\* the rows sorted by count alone, smallest first
RECURSIVE sorted_rows_ascending(_)
sorted_rows_ascending(rows) ==
    IF Len(rows) = 0 THEN <<>>
    ELSE LET k == CHOOSE i \in 1..Len(rows) :
                      \A j \in 1..Len(rows) :
                          \/ rows[i][3] < rows[j][3]
                          \/ rows[i][3] = rows[j][3] /\ rows[i][1] <= rows[j][1]
         IN  <<rows[k]>> \o sorted_rows_ascending(RemoveAt(rows, k))

\* sorted(rows, key=lambda x: (-x[2], x[0]))
RECURSIVE sorted_rows(_)
sorted_rows(rows) ==
    IF Len(rows) = 0 THEN <<>>
    ELSE LET k == CHOOSE i \in 1..Len(rows) :
                      \A j \in 1..Len(rows) :
                          \/ -rows[i][3] < -rows[j][3]
                          \/ -rows[i][3] = -rows[j][3] /\ rows[i][1] <= rows[j][1]
         IN  <<rows[k]>> \o sorted_rows(RemoveAt(rows, k))

\* the buttons "{idx}. {name} | {cnt} | {pct}%" in the order of rows
Buttons(rows, total) ==
    [k \in 1..Len(rows) |->
        [idx |-> k, cid |-> rows[k][1], name |-> rows[k][2], cnt |-> rows[k][3],
         pct |-> pct(rows[k][3], total)]]

\* the keyboard of the voting message
vote_kb(cs, vs) ==
    LET rows == candidates_with_counts(cs, vs)
    IN  Buttons(rows, sum_cnt(rows))

\* the keyboard of the results view
results_text_and_buttons(cs, vs) ==
    LET rows == candidates_with_counts(cs, vs)
    IN  Buttons(sorted_rows(rows), sum_cnt(rows))

(* ------------------------------ cb_vote ------------------------------- *)
\* what get_chat_member may answer for the chats of chs: "member" stands for
\* every status other than left and kicked, "error" for a raised exception
OracleAnswers(chs) == [{chs[i] : i \in 1..Len(chs)} -> Status]

\* the voting message as cmd_start and cb_check_sub send it: the total
\* of voting_message_text and the rows of vote_kb, no rendering under way;
\* text is the total read for a new text, edit what replaced the message last
Sent(cs, vs) ==
    [pc |-> "none", total |-> total_votes(vs), rows |-> candidates_with_counts(cs, vs),
     text |-> 0, edit |-> "sent"]

IdleReq == [pc |-> "idle", user |-> 0, cid |-> 0, outcome |-> "none"]

\* an add_candidates_auto call: the lines of its message, its list names, the
\* position i of its loop over names, and its two counters
IdleAdd == [pc |-> "idle", user |-> 0, lines |-> <<>>, names |-> <<>>, i |-> 0,
            added |-> 0, skipped |-> 0]

Finish(r, out) == reqs' = [reqs EXCEPT ![r].pc = "done", ![r].outcome = out]

\* the window checked before the subscription
CbVoteSubscribed_windowFirst(r, u, cid, st) ==
    /\ reqs[r].pc \in {"idle", "done"}
    /\ fsm[u] = "None"
    /\ reqs' = [reqs EXCEPT ![r] =
                  IF ~voting_is_open
                  THEN [pc |-> "done", user |-> u, cid |-> cid, outcome |-> "VotingClosed"]
                  ELSE IF is_subscribed(channels, st)
                  THEN [pc |-> "open", user |-> u, cid |-> cid, outcome |-> "none"]
                  ELSE [pc |-> "done", user |-> u, cid |-> cid, outcome |-> "NotEligible"]]
    /\ shown' = [shown EXCEPT ![r].pc = "none"]
    /\ UNCHANGED <<now, settings, channels, candidates, nextId, votes, fsm, mode, probe, adds>>

\* the handler starts: get_channels, then is_subscribed asks the oracle
CbVoteSubscribed(r, u, cid, st) ==
    /\ reqs[r].pc \in {"idle", "done"}
    /\ fsm[u] = "None"
    /\ reqs' = [reqs EXCEPT ![r] =
                  IF is_subscribed(channels, st)
                  THEN [pc |-> "open", user |-> u, cid |-> cid, outcome |-> "none"]
                  ELSE [pc |-> "done", user |-> u, cid |-> cid, outcome |-> "NotEligible"]]
    /\ shown' = [shown EXCEPT ![r].pc = "none"]
    /\ UNCHANGED <<now, settings, channels, candidates, nextId, votes, fsm, mode, probe, adds>>

CbVoteIsOpen(r) ==
    /\ reqs[r].pc = "open"
    /\ IF voting_is_open
       THEN reqs' = [reqs EXCEPT ![r].pc = "exists"]
       ELSE Finish(r, "VotingClosed")
    /\ UNCHANGED <<now, settings, channels, candidates, nextId, votes, fsm, mode, probe, adds, shown>>

CbVoteExists(r) ==
    /\ reqs[r].pc = "exists"
    /\ IF reqs[r].cid \in CandidateIds(candidates)
       THEN reqs' = [reqs EXCEPT ![r].pc = "upsert"]
       ELSE Finish(r, "NoSuchCandidate")
    /\ UNCHANGED <<now, settings, channels, candidates, nextId, votes, fsm, mode, probe, adds, shown>>

\* the upsert; the foreign key candidate_id REFERENCES candidates(id) rejects a
\* row for a candidate that is gone, and the handler does not catch that error
CbVoteUpsert(r) ==
    /\ reqs[r].pc = "upsert"
    /\ IF reqs[r].cid \in CandidateIds(candidates)
       THEN /\ votes' = UpsertVote(reqs[r].user, reqs[r].cid)
            /\ Finish(r, "Accepted")
       ELSE /\ votes' = votes
            /\ Finish(r, "StoreError")
    /\ UNCHANGED <<now, settings, channels, candidates, nextId, fsm, mode, probe, adds, shown>>

\* after the answer "accepted": voting_message_text reads total_votes for the
\* text of the message
CbVoteText(r) ==
    /\ reqs[r].pc = "done"
    /\ reqs[r].outcome = "Accepted"
    /\ shown[r].pc = "none"
    /\ shown' = [shown EXCEPT ![r].pc = "kb", ![r].text = total_votes(votes)]
    /\ UNCHANGED <<now, settings, channels, candidates, nextId, votes, fsm, mode, reqs, probe, adds>>

\* then vote_kb reads candidates_with_counts for the keyboard, and edit_text
\* replaces text and keyboard together; ok is whether Telegram accepts the edit
CbVoteKb(r, ok) ==
    /\ shown[r].pc = "kb"
    /\ shown' = [shown EXCEPT ![r] =
                   IF ok
                   THEN [pc |-> "shown", total |-> shown[r].text,
                         rows |-> candidates_with_counts(candidates, votes), text |-> 0,
                         edit |-> "text"]
                   ELSE [shown[r] EXCEPT !.pc = "kb2", !.text = 0]]
    /\ UNCHANGED <<now, settings, channels, candidates, nextId, votes, fsm, mode, reqs, probe, adds>>

\* edit_text raised: vote_kb is read again and edit_reply_markup replaces the
\* keyboard alone; a second failure is passed over
CbVoteKbAgain(r, ok) ==
    /\ shown[r].pc = "kb2"
    /\ shown' = [shown EXCEPT ![r].pc = "shown",
                              ![r].rows = IF ok THEN candidates_with_counts(candidates, votes)
                                          ELSE shown[r].rows,
                              ![r].edit = IF ok THEN "markup" ELSE shown[r].edit]
    /\ UNCHANGED <<now, settings, channels, candidates, nextId, votes, fsm, mode, reqs, probe, adds>>

\* after the answer "closed": edit_reply_markup(vote_kb(disabled=True)) replaces
\* the keyboard alone; a failure is passed over
CbVoteClosedKb(r, ok) ==
    /\ reqs[r].pc = "done"
    /\ reqs[r].outcome = "VotingClosed"
    /\ shown[r].pc = "none"
    /\ shown' = [shown EXCEPT ![r].pc = "shown",
                              ![r].rows = IF ok THEN candidates_with_counts(candidates, votes)
                                          ELSE shown[r].rows,
                              ![r].edit = IF ok THEN "markup" ELSE shown[r].edit]
    /\ UNCHANGED <<now, settings, channels, candidates, nextId, votes, fsm, mode, reqs, probe, adds>>

\* call r has nothing left to render
Settled(r) ==
    \/ reqs[r].pc = "idle"
    \/ reqs[r].pc = "done" /\ reqs[r].outcome \notin {"Accepted", "VotingClosed"}
    \/ shown[r].pc = "shown"

(* --------------------------- admin callbacks -------------------------- *)
\* cb_admin_actions starts with the test of is_admin: a caller who is not an
\* administrator is answered "no access" and the handler returns

CbAdminSetState(u, s) ==
    /\ fsm[u] = "None"
    /\ fsm' = IF is_admin(u) THEN [fsm EXCEPT ![u] = s] ELSE fsm
    /\ UNCHANGED <<now, settings, channels, candidates, nextId, votes, mode, reqs, probe, adds, shown>>

CbAdminAddCandidate(u) ==
    /\ fsm[u] = "None"
    /\ mode' = IF is_admin(u) THEN mode \cup {u} ELSE mode
    /\ UNCHANGED <<now, settings, channels, candidates, nextId, votes, fsm, reqs, probe, adds, shown>>

CbAdminTimerStop(u) ==
    /\ fsm[u] = "None"
    /\ settings' = IF is_admin(u) THEN set_setting("end_time_utc", isoformat(now))
                   ELSE settings
    /\ UNCHANGED <<now, channels, candidates, nextId, votes, fsm, mode, reqs, probe, adds, shown>>

\* a reset that deletes the ballots of the other users only
CbAdminResetVotes_others(u) ==
    /\ fsm[u] = "None"
    /\ votes' = IF is_admin(u) THEN {v \in votes : v.user_id = u} ELSE votes
    /\ UNCHANGED <<now, settings, channels, candidates, nextId, fsm, mode, reqs, probe, adds, shown>>

\* TRUNCATE votes
CbAdminResetVotes(u) ==
    /\ fsm[u] = "None"
    /\ votes' = IF is_admin(u) THEN {} ELSE votes
    /\ UNCHANGED <<now, settings, channels, candidates, nextId, fsm, mode, reqs, probe, adds, shown>>

(* ----------------------- admin message handlers ----------------------- *)
\* normalize_channel_input on the inputs of ChannelInputs: a t.me link and an
\* @username name the same chat; anything else raises ValueError ("bad")
ChannelInputs == {"@g", "t.me/g", "kanal"}

normalize_channel_input(raw) ==
    CASE raw \in {"@g", "t.me/g"} -> "@g"
      [] raw \in {"@h", "https://t.me/h"} -> "@h"
      [] OTHER -> "bad"

RemoveChat(chs, chat_id) == SelectSeq(chs, LAMBDA x : x # chat_id)

\* INSERT INTO channels ... ON CONFLICT (chat_id) DO UPDATE SET join_url:
\* a new row is the newest, an existing row keeps its created_at
InsertChannel(chs, chat_id) ==
    IF \E i \in 1..Len(chs) : chs[i] = chat_id THEN chs ELSE <<chat_id>> \o chs

StAddChannel(u, raw) ==
    /\ fsm[u] = "add_channel"
    /\ fsm' = [fsm EXCEPT ![u] = "None"]
    /\ channels' = IF is_admin(u) /\ normalize_channel_input(raw) # "bad"
                   THEN InsertChannel(channels, normalize_channel_input(raw))
                   ELSE channels
    /\ UNCHANGED <<now, settings, candidates, nextId, votes, mode, reqs, probe, adds, shown>>

StRmChannel(u, raw) ==
    /\ fsm[u] = "remove_channel"
    /\ fsm' = [fsm EXCEPT ![u] = "None"]
    /\ channels' = IF is_admin(u)
                   THEN RemoveChat(channels,
                            IF normalize_channel_input(raw) # "bad"
                            THEN normalize_channel_input(raw) ELSE raw)
                   ELSE channels
    /\ UNCHANGED <<now, settings, candidates, nextId, votes, mode, reqs, probe, adds, shown>>

\* str.strip() of one line
RECURSIVE strip(_)
strip(s) ==
    IF Len(s) = 0 THEN s
    ELSE IF Head(s) = " " THEN strip(Tail(s))
    ELSE IF s[Len(s)] = " " THEN strip(SubSeq(s, 1, Len(s) - 1))
    ELSE s

\* names = [x.strip() for x in text.split("\n") if x.strip()]
RECURSIVE split_names(_)
split_names(lines) ==
    IF Len(lines) = 0 THEN <<>>
    ELSE IF strip(Head(lines)) = NoText THEN split_names(Tail(lines))
    ELSE <<strip(Head(lines))>> \o split_names(Tail(lines))

\* the existence test comparing the names as they are, not their lower case
NameExists_exact(cs, name) == \E c \in cs : c.name = name

NameExists(cs, name) == \E c \in cs : LOWER(c.name) = LOWER(name)

\* the loop of add_candidates_auto over names, from registry cs and sequence
\* value nid: the registry, the sequence value and the two counters at the end
RECURSIVE bulk_add(_, _, _, _, _)
bulk_add(names, cs, nid, added, skipped) ==
    IF Len(names) = 0
    THEN [cs |-> cs, nid |-> nid, added |-> added, skipped |-> skipped]
    ELSE IF NameExists(cs, Head(names))
    THEN bulk_add(Tail(names), cs, nid, added, skipped + 1)
    ELSE bulk_add(Tail(names), cs \cup {[id |-> nid, name |-> Head(names)]},
                  nid + 1, added + 1, skipped)

AddCandidatesAuto(u, lines) ==
    /\ u \in mode
    /\ fsm[u] = "None"
    /\ IF ~is_admin(u)
       THEN /\ mode' = mode \ {u}
            /\ UNCHANGED <<candidates, nextId>>
       ELSE IF split_names(lines) = <<>>
       THEN UNCHANGED <<mode, candidates, nextId>>
       ELSE LET res == bulk_add(split_names(lines), candidates, nextId, 0, 0)
            IN  /\ res.nid <= MaxId + 1
                /\ candidates' = res.cs
                /\ nextId' = res.nid
                /\ mode' = mode \ {u}
    /\ UNCHANGED <<now, settings, channels, votes, fsm, reqs, probe, adds, shown>>

\* /cancel sent while in ADD_CANDIDATE_MODE
AddCandidatesCancel(u) ==
    /\ u \in mode
    /\ fsm[u] = "None"
    /\ mode' = mode \ {u}
    /\ UNCHANGED <<now, settings, channels, candidates, nextId, votes, fsm, reqs, probe, adds, shown>>

\* add_candidates_auto split at its awaits, for calls that run while other
\* handlers run: the start up to the first query, then for each name the
\* SELECT and, if it found nothing, the INSERT

AddAutoStart(a, u, lines) ==
    /\ adds[a].pc \in {"idle", "done"}
    /\ u \in mode
    /\ fsm[u] = "None"
    /\ IF ~is_admin(u)
       THEN /\ mode' = mode \ {u}
            /\ adds' = adds
       ELSE IF split_names(lines) = <<>>
       THEN UNCHANGED <<mode, adds>>
       ELSE /\ mode' = mode
            /\ adds' = [adds EXCEPT ![a] = [pc |-> "check", user |-> u, lines |-> lines,
                                             names |-> split_names(lines), i |-> 1,
                                             added |-> 0, skipped |-> 0]]
    /\ UNCHANGED <<now, settings, channels, candidates, nextId, votes, fsm, reqs, probe, shown>>

\* the loop goes on to the next name, or ends: the mode is discarded and the
\* two counters are reported
AddAutoAdvance(a, added, skipped) ==
    IF adds[a].i = Len(adds[a].names)
    THEN /\ adds' = [adds EXCEPT ![a].pc = "done", ![a].added = added,
                                  ![a].skipped = skipped]
         /\ mode' = mode \ {adds[a].user}
    ELSE /\ adds' = [adds EXCEPT ![a].pc = "check", ![a].i = adds[a].i + 1,
                                  ![a].added = added, ![a].skipped = skipped]
         /\ mode' = mode

\* SELECT 1 FROM candidates WHERE LOWER(name)=LOWER($1)
AddAutoCheck(a) ==
    /\ adds[a].pc = "check"
    /\ IF NameExists(candidates, adds[a].names[adds[a].i])
       THEN AddAutoAdvance(a, adds[a].added, adds[a].skipped + 1)
       ELSE /\ adds' = [adds EXCEPT ![a].pc = "insert"]
            /\ mode' = mode
    /\ UNCHANGED <<now, settings, channels, candidates, nextId, votes, fsm, reqs, probe, shown>>

\* INSERT INTO candidates(name) VALUES($1)
AddAutoInsert(a) ==
    /\ adds[a].pc = "insert"
    /\ nextId <= MaxId + 1
    /\ candidates' = candidates \cup {[id |-> nextId, name |-> adds[a].names[adds[a].i]]}
    /\ nextId' = nextId + 1
    /\ AddAutoAdvance(a, adds[a].added + 1, adds[a].skipped)
    /\ UNCHANGED <<now, settings, channels, votes, fsm, reqs, probe, shown>>

NoAddInFlight == \A a \in Slots : adds[a].pc \in {"idle", "done"}

\* a number taken as a rank first and as an id only when no rank matches
rm_candidate_target_rankFirst(cs, raw) ==
    IF isdigit(raw)
    THEN LET n == int(raw)
             byId == {c \in cs : c.id = n}
             ordered == OrderById(cs)
         IN  IF n >= 1 /\ n <= Len(ordered)
             THEN [status |-> "deleted_rank", gone |-> {ordered[n]}]
             ELSE IF Cardinality(byId) = 1 THEN [status |-> "deleted_id", gone |-> byId]
             ELSE IF n - 1 < 0 THEN [status |-> "error", gone |-> {}]
             ELSE [status |-> "not_found", gone |-> {}]
    ELSE LET byName == {c \in cs : LOWER(c.name) = LOWER(raw)}
         IN  IF byName # {} THEN [status |-> "deleted_name", gone |-> byName]
             ELSE [status |-> "not_found", gone |-> {}]

\* the candidates st_rm_candidate deletes for the text raw; "error" when the
\* OFFSET of the rank query is negative and the database rejects the query
rm_candidate_target(cs, raw) ==
    IF isdigit(raw)
    THEN LET n == int(raw)
             byId == {c \in cs : c.id = n}
             ordered == OrderById(cs \ byId)
         IN  IF Cardinality(byId) = 1 THEN [status |-> "deleted_id", gone |-> byId]
             ELSE IF n - 1 < 0 THEN [status |-> "error", gone |-> {}]
             ELSE IF n > Len(ordered) THEN [status |-> "not_found", gone |-> {}]
             ELSE [status |-> "deleted_rank", gone |-> {ordered[n]}]
    ELSE LET byName == {c \in cs : LOWER(c.name) = LOWER(raw)}
         IN  IF byName # {} THEN [status |-> "deleted_name", gone |-> byName]
             ELSE [status |-> "not_found", gone |-> {}]

RmInputs == {str(n) : n \in 0..(MaxId + 1)} \cup Names

StRmCandidate(u, text) ==
    /\ fsm[u] = "remove_candidate"
    /\ IF ~is_admin(u)
       THEN /\ fsm' = [fsm EXCEPT ![u] = "None"]
            /\ UNCHANGED <<candidates, votes>>
       ELSE LET res == rm_candidate_target(candidates, strip(text))
            IN  /\ candidates' = candidates \ res.gone
                /\ votes' = DeleteCandidatesVotes(res.gone)
                /\ fsm' = IF res.status = "error" THEN fsm
                          ELSE [fsm EXCEPT ![u] = "None"]
    /\ UNCHANGED <<now, settings, channels, nextId, mode, reqs, probe, adds, shown>>

TimerInputs == {str(n) : n \in 0..MaxMinutes} \cup {<<"x">>}

\* the test minutes <= 0 weakened to minutes < 0
StSetTimer_zero(u, text) ==
    /\ fsm[u] = "set_timer"
    /\ IF ~is_admin(u)
       THEN /\ fsm' = [fsm EXCEPT ![u] = "None"]
            /\ UNCHANGED settings
       ELSE IF ~isdigit(strip(text)) \/ int(strip(text)) < 0
       THEN UNCHANGED <<fsm, settings>>
       ELSE /\ settings' = set_setting("end_time_utc", isoformat(now + int(strip(text))))
            /\ fsm' = [fsm EXCEPT ![u] = "None"]
    /\ UNCHANGED <<now, channels, candidates, nextId, votes, mode, reqs, probe, adds, shown>>

StSetTimer(u, text) ==
    /\ fsm[u] = "set_timer"
    /\ IF ~is_admin(u)
       THEN /\ fsm' = [fsm EXCEPT ![u] = "None"]
            /\ UNCHANGED settings
       ELSE IF ~isdigit(strip(text)) \/ int(strip(text)) <= 0
       THEN UNCHANGED <<fsm, settings>>
       ELSE /\ settings' = set_setting("end_time_utc", isoformat(now + int(strip(text))))
            /\ fsm' = [fsm EXCEPT ![u] = "None"]
    /\ UNCHANGED <<now, channels, candidates, nextId, votes, mode, reqs, probe, adds, shown>>

(* ------------------------------ clock --------------------------------- *)
Tick ==
    /\ now < MaxTime
    /\ now' = now + 1
    /\ UNCHANGED <<settings, channels, candidates, nextId, votes, fsm, mode, reqs, probe, adds, shown>>

(* --------------------------- specification ---------------------------- *)
\* the messages an admin sends in ADD_CANDIDATE_MODE: up to MaxLines lines
Lines == Names \cup {<<" ">>}

TextInputs == UNION {[1..k -> Lines] : k \in 1..MaxLines}

Init ==
    /\ now = 0
    /\ settings = {}
    /\ channels = <<>>
    /\ candidates = {}
    /\ nextId = 1
    /\ votes = {}
    /\ fsm = [u \in Users |-> "None"]
    /\ mode = {}
    /\ reqs = [r \in Slots |-> IdleReq]
    /\ probe = NoProbe
    /\ adds = [a \in Slots |-> IdleAdd]
    /\ shown = [r \in Slots |-> Sent(candidates, votes)]

Next ==
    \/ \E r \in {1}, u \in Users, cid \in 1..MaxId, st \in OracleAnswers(channels) :
          CbVoteSubscribed(r, u, cid, st)
    \/ \E r \in {1} : CbVoteIsOpen(r)
    \/ \E r \in {1} : CbVoteExists(r)
    \/ \E r \in {1} : CbVoteUpsert(r)
    \/ \E u \in Users, s \in AdminState \ {"None"} : CbAdminSetState(u, s)
    \/ \E u \in Users : CbAdminAddCandidate(u)
    \/ \E u \in Users : CbAdminTimerStop(u)
    \/ \E u \in Users : CbAdminResetVotes(u)
    \/ \E u \in Users, raw \in ChannelInputs : StAddChannel(u, raw)
    \/ \E u \in Users, raw \in ChannelInputs : StRmChannel(u, raw)
    \/ \E u \in Users, lines \in TextInputs : AddCandidatesAuto(u, lines)
    \/ \E u \in Users : AddCandidatesCancel(u)
    \/ \E u \in Users, text \in RmInputs : StRmCandidate(u, text)
    \/ \E u \in Users, text \in TimerInputs : StSetTimer(u, text)
    \/ Tick

Spec == Init /\ [][Next]_vars

(* ---- concurrent casts: MaxReq cb_vote calls in flight, a registry of ---- *)
(* ---- MaxCast candidates, one gate channel, the clock and timer stop  ---- *)
CastNames == <<<<"a">>, <<"b">>, <<"a", "b">>, <<"b", "a">>>>

InitCast ==
    /\ now = 0
    /\ settings = {}
    /\ channels = <<"@g">>
    /\ candidates = {[id |-> i, name |-> CastNames[i]] : i \in 1..MaxCast}
    /\ nextId = MaxCast + 1
    /\ votes = {}
    /\ fsm = [u \in Users |-> "None"]
    /\ mode = {}
    /\ reqs = [r \in Slots |-> IdleReq]
    /\ probe = NoProbe
    /\ adds = [a \in Slots |-> IdleAdd]
    /\ shown = [r \in Slots |-> Sent(candidates, votes)]

NextCast ==
    \/ \E r \in Slots, u \in Users, cid \in 1..nextId, st \in OracleAnswers(channels) :
          CbVoteSubscribed(r, u, cid, st)
    \/ \E r \in Slots : CbVoteIsOpen(r)
    \/ \E r \in Slots : CbVoteExists(r)
    \/ \E r \in Slots : CbVoteUpsert(r)
    \/ \E u \in Users : CbAdminTimerStop(u)
    \/ Tick

SpecCast == InitCast /\ [][NextCast]_vars

(* ---- is_subscribed on its own: every channel list, every oracle answer -- *)
ChannelLists ==
    {chs \in UNION {[1..k -> ChatIds] : k \in 0..MaxChats} :
        \A i, j \in 1..Len(chs) : chs[i] = chs[j] => i = j}

ProbeSubscribed(u, st) ==
    /\ probe' = [op |-> "is_subscribed", user |-> u, st |-> st,
                 result |-> is_subscribed(channels, st)]
    /\ UNCHANGED <<now, settings, channels, candidates, nextId, votes, fsm, mode, reqs, adds, shown>>

InitElig ==
    /\ now = 0
    /\ settings = {}
    /\ channels \in ChannelLists
    /\ candidates = {}
    /\ nextId = 1
    /\ votes = {}
    /\ fsm = [u \in Users |-> "None"]
    /\ mode = {}
    /\ reqs = [r \in Slots |-> IdleReq]
    /\ probe = NoProbe
    /\ adds = [a \in Slots |-> IdleAdd]
    /\ shown = [r \in Slots |-> Sent(candidates, votes)]

NextElig == \E u \in Users, st \in OracleAnswers(channels) : ProbeSubscribed(u, st)

SpecElig == InitElig /\ [][NextElig]_vars

(* ---- requests of users who are not administrators, from a populated ---- *)
(* ---- store: their cb_vote calls and their presses of admin buttons   ---- *)
Guests == Users \ ADMINS

GuestCandidates == {[id |-> 1, name |-> <<"a">>], [id |-> 2, name |-> <<"b">>]}

InitGuest ==
    /\ now = 0
    /\ settings \in {{}, {[key |-> "end_time_utc", value |-> isoformat(MaxTime - 1)]}}
    /\ channels \in {<<>>, <<"@g">>}
    /\ candidates = GuestCandidates
    /\ nextId = 3
    /\ votes \in {vs \in SUBSET [user_id : Users, candidate_id : CandidateIds(GuestCandidates)] :
                     \A v, w \in vs : v.user_id = w.user_id => v = w}
    /\ fsm = [u \in Users |-> "None"]
    /\ mode = {}
    /\ reqs = [r \in Slots |-> IdleReq]
    /\ probe = NoProbe
    /\ adds = [a \in Slots |-> IdleAdd]
    /\ shown = [r \in Slots |-> Sent(candidates, votes)]

NextGuest ==
    \/ \E r \in {1}, u \in Guests, cid \in 1..nextId, st \in OracleAnswers(channels) :
          CbVoteSubscribed(r, u, cid, st)
    \/ \E r \in {1} : CbVoteIsOpen(r)
    \/ \E r \in {1} : CbVoteExists(r)
    \/ \E r \in {1} : CbVoteUpsert(r)
    \/ \E u \in Guests, s \in AdminState \ {"None"} : CbAdminSetState(u, s)
    \/ \E u \in Guests : CbAdminAddCandidate(u)
    \/ \E u \in Guests : CbAdminTimerStop(u)
    \/ \E u \in Guests : CbAdminResetVotes(u)
    \/ Tick

SpecGuest == InitGuest /\ [][NextGuest]_vars

(* ---- the candidate registry on its own: bulk add and removal by an ---- *)
(* ---- administrator, one message at a time, from every registry      ---- *)
\* a candidate may be named by digits only: any non-blank line is a name
RegNames == Names \cup {<<"2">>}

UniqueNames(cs) == \A c, d \in cs : LOWER(c.name) = LOWER(d.name) => c = d

\* the registries with ids up to MaxId + 1 that serial bulk adds and removals
\* leave: one row per id, no two names equal up to case
Registries ==
    {cs \in SUBSET [id : 1..(MaxId + 1), name : RegNames] :
        /\ \A c, d \in cs : c.id = d.id => c = d
        /\ UniqueNames(cs)}

RegRmInputs == {str(n) : n \in 0..(MaxId + 2)} \cup RegNames

\* the lines of a bulk-add message: a name, a name after a space, a blank line
AddLines == Lines \cup {<<" ", "b">>}

AddTextInputs == UNION {[1..k -> AddLines] : k \in 1..MaxLines}

InitReg ==
    /\ now = 0
    /\ settings = {}
    /\ channels = <<>>
    /\ candidates \in Registries
    /\ nextId \in 1..(MaxId + 2)
    /\ \A c \in candidates : c.id < nextId
    /\ votes = {}
    /\ fsm = [u \in Users |-> "None"]
    /\ mode = {}
    /\ reqs = [r \in Slots |-> IdleReq]
    /\ probe = NoProbe
    /\ adds = [a \in Slots |-> IdleAdd]
    /\ shown = [r \in Slots |-> Sent(candidates, votes)]

NextReg ==
    \/ \E u \in Users : CbAdminSetState(u, "remove_candidate")
    \/ \E u \in Users : CbAdminAddCandidate(u)
    \/ \E u \in Users, lines \in AddTextInputs : AddAutoStart(1, u, lines)
    \/ AddAutoCheck(1)
    \/ AddAutoInsert(1)
    \/ \E u \in Users : AddCandidatesCancel(u)
    \/ NoAddInFlight /\ \E u \in Users, text \in RegRmInputs : StRmCandidate(u, text)

SpecReg == InitReg /\ [][NextReg]_vars

(* ---- cb_vote with the rendering that follows its answer, next to  ---- *)
(* ---- other calls, a reset of the votes and the end of the window   ---- *)
InitShow ==
    /\ now = 0
    /\ settings = {}
    /\ channels = <<>>
    /\ candidates = {[id |-> 1, name |-> <<"a">>]}
    /\ nextId = 2
    /\ votes = {}
    /\ fsm = [u \in Users |-> "None"]
    /\ mode = {}
    /\ reqs = [r \in Slots |-> IdleReq]
    /\ probe = NoProbe
    /\ adds = [a \in Slots |-> IdleAdd]
    /\ shown = [r \in Slots |-> Sent(candidates, votes)]

NextShow ==
    \/ \E r \in Slots, u \in Users, cid \in 1..nextId, st \in OracleAnswers(channels) :
          Settled(r) /\ CbVoteSubscribed(r, u, cid, st)
    \/ \E r \in Slots : CbVoteIsOpen(r)
    \/ \E r \in Slots : CbVoteExists(r)
    \/ \E r \in Slots : CbVoteUpsert(r)
    \/ \E r \in Slots : CbVoteText(r)
    \/ \E r \in Slots, ok \in BOOLEAN : CbVoteKb(r, ok)
    \/ \E r \in Slots, ok \in BOOLEAN : CbVoteKbAgain(r, ok)
    \/ \E r \in Slots, ok \in BOOLEAN : CbVoteClosedKb(r, ok)
    \/ \E u \in Users : CbAdminResetVotes(u)
    \/ \E u \in Users : CbAdminTimerStop(u)

SpecShow == InitShow /\ [][NextShow]_vars

(* ---- the two views on their own: the keyboard of the voting message ---- *)
(* ---- and the results view, rendered from every ballot store          ---- *)
Voters == 1..MaxVoters

BallotStores ==
    {vs \in SUBSET [user_id : Voters, candidate_id : 1..MaxCast] :
        \A v, w \in vs : v.user_id = w.user_id => v = w}

ProbeVoteKb ==
    /\ probe' = [op |-> "vote_kb", rows |-> vote_kb(candidates, votes)]
    /\ UNCHANGED <<now, settings, channels, candidates, nextId, votes, fsm, mode, reqs, adds, shown>>

ProbeResults ==
    /\ probe' = [op |-> "results", rows |-> results_text_and_buttons(candidates, votes)]
    /\ UNCHANGED <<now, settings, channels, candidates, nextId, votes, fsm, mode, reqs, adds, shown>>

InitView ==
    /\ now = 0
    /\ settings = {}
    /\ channels = <<>>
    /\ candidates = {[id |-> i, name |-> CastNames[i]] : i \in 1..MaxCast}
    /\ nextId = MaxCast + 1
    /\ votes \in BallotStores
    /\ fsm = [u \in Users |-> "None"]
    /\ mode = {}
    /\ reqs = [r \in Slots |-> IdleReq]
    /\ probe = NoProbe
    /\ adds = [a \in Slots |-> IdleAdd]
    /\ shown = [r \in Slots |-> Sent(candidates, votes)]

NextView == ProbeVoteKb \/ ProbeResults

SpecView == InitView /\ [][NextView]_vars

(* ---- concurrent bulk adds: MaxReq add_candidates_auto calls in flight ---- *)
(* ---- on an empty registry, each split at its awaits                  ---- *)
InitAdd ==
    /\ now = 0
    /\ settings = {}
    /\ channels = <<>>
    /\ candidates = {}
    /\ nextId = 1
    /\ votes = {}
    /\ fsm = [u \in Users |-> "None"]
    /\ mode = {}
    /\ reqs = [r \in Slots |-> IdleReq]
    /\ probe = NoProbe
    /\ adds = [a \in Slots |-> IdleAdd]
    /\ shown = [r \in Slots |-> Sent(candidates, votes)]

NextAdd ==
    \/ \E u \in Users : CbAdminAddCandidate(u)
    \/ \E a \in Slots, u \in Users, lines \in TextInputs : AddAutoStart(a, u, lines)
    \/ \E a \in Slots : AddAutoCheck(a)
    \/ \E a \in Slots : AddAutoInsert(a)
    \/ \E u \in Users : AddCandidatesCancel(u)

SpecAdd == InitAdd /\ [][NextAdd]_vars

(* ============================ properties ============================== *)
VotesOf(u) == {v \in votes : v.user_id = u}

Ballot(u, cid) == [user_id |-> u, candidate_id |-> cid]

Done(r, out) == reqs[r].pc = "done" /\ reqs[r].outcome = out

\* the step in which call r writes its ballot
Accepts(r) ==
    /\ reqs[r].pc = "upsert"
    /\ reqs'[r].pc = "done"
    /\ reqs'[r].outcome = "Accepted"

\* the step in which call r starts and the oracle answers st
Starts(r, st) ==
    /\ reqs[r].pc \in {"idle", "done"}
    /\ reqs'[r] # reqs[r]
    /\ CbVoteSubscribed(r, reqs'[r].user, reqs'[r].cid, st)

\* the stored deadline, read straight from the settings row
HasDeadline == \E s \in settings : s.key = "end_time_utc"

Deadline == int((CHOOSE s \in settings : s.key = "end_time_utc").value)

WindowClosed == HasDeadline /\ Deadline <= now

AtMostOneBallot == \A u \in Users : Cardinality(VotesOf(u)) <= 1

\* C1: the ballot store never holds two ballots of one voter; a successful
\* cast leaves the voter with the single ballot naming that cast's candidate,
\* and a voter's ballot changes in no step but a successful cast of that voter.
C1_OneBallotLastCast ==
    /\ []AtMostOneBallot
    /\ [][/\ \A r \in Slots :
                Accepts(r) => VotesOf(reqs[r].user)' = {Ballot(reqs[r].user, reqs[r].cid)}
          /\ \A u \in Users :
                VotesOf(u)' # VotesOf(u) => \E r \in Slots : Accepts(r) /\ reqs[r].user = u
         ]_vars

\* a voter's accepted cast and the same voter's failed cast for another
\* candidate: the ballot names the accepted one
C1_Witness ==
    \E r1, r2 \in Slots :
        /\ Done(r1, "Accepted") /\ Done(r2, "NoSuchCandidate")
        /\ reqs[r1].user = reqs[r2].user
        /\ VotesOf(reqs[r1].user) = {Ballot(reqs[r1].user, reqs[r1].cid)}

\* C2: two casts of one voter that both reached the upsert, in any
\* interleaving, leave exactly one ballot of that voter, naming the candidate
\* of one of the two casts.
C2_ConcurrentCasts ==
    \A r1, r2 \in Slots :
        (/\ r1 # r2
         /\ Done(r1, "Accepted") /\ Done(r2, "Accepted")
         /\ reqs[r1].user = reqs[r2].user)
        => \E c \in {reqs[r1].cid, reqs[r2].cid} :
              VotesOf(reqs[r1].user) = {Ballot(reqs[r1].user, c)}

\* both upserts of one voter for different candidates done, one ballot left
C2_Witness ==
    \E r1, r2 \in Slots :
        /\ r1 # r2
        /\ Done(r1, "Accepted") /\ Done(r2, "Accepted")
        /\ reqs[r1].user = reqs[r2].user
        /\ reqs[r1].cid # reqs[r2].cid
        /\ Cardinality(VotesOf(reqs[r1].user)) = 1

C5_FailClosed ==
    probe.op = "is_subscribed"
    => probe.result = (\A i \in 1..Len(channels) : probe.st[channels[i]] = "member")

\* membership in the first channel, an oracle error in a later one: not eligible
C5_Witness ==
    /\ probe.op = "is_subscribed"
    /\ Len(channels) >= 2
    /\ probe.st[channels[1]] = "member"
    /\ \E i \in 2..Len(channels) : probe.st[channels[i]] = "error"
    /\ probe.result = FALSE

ForeignKey ==
    /\ \A v \in votes : v.candidate_id \in CandidateIds(candidates)
    /\ \A c \in candidates : c.id < nextId

\* C6: every ballot names a registered candidate, so a removal takes the
\* ballots naming the removed candidate with it; a new candidate gets an id
\* never handed out before, so a removed id stays unregistered, and a
\* cast_vote reaching the existence check for it is answered NoSuchCandidate
\* and writes nothing.
C6_CascadeNoReuse ==
    /\ []ForeignKey
    /\ [][/\ nextId' >= nextId
          /\ \A c \in candidates' \ candidates : nextId <= c.id /\ c.id < nextId'
          /\ \A r \in Slots :
                (/\ reqs[r].pc = "exists"
                 /\ reqs'[r] # reqs[r]
                 /\ reqs[r].cid \notin CandidateIds(candidates))
                => /\ reqs'[r].pc = "done"
                   /\ reqs'[r].outcome = "NoSuchCandidate"
                   /\ votes' = votes
         ]_vars

\* a ballot was accepted for a candidate that has since been removed: the
\* voter has no ballot any more, while another voter's ballot is still there
C6_Witness ==
    \E r \in Slots :
        /\ Done(r, "Accepted")
        /\ reqs[r].cid \notin CandidateIds(candidates)
        /\ VotesOf(reqs[r].user) = {}
        /\ votes # {}

RECURSIVE SumCounts(_, _)
SumCounts(t, i) == IF i > Len(t) THEN 0 ELSE t[i][3] + SumCounts(t, i + 1)

\* C7: the tally has one row per registered candidate, each with the number
\* of ballots naming that candidate, and the counts add up to the number of
\* ballots in the store.
C7_TallyMatchesBallots ==
    LET t == candidates_with_counts(candidates, votes)
    IN  /\ Len(t) = Cardinality(candidates)
        /\ \A c \in candidates :
              /\ Cardinality({i \in 1..Len(t) : t[i][1] = c.id}) = 1
              /\ \A i \in 1..Len(t) :
                    t[i][1] = c.id
                    => /\ t[i][2] = c.name
                       /\ t[i][3] = Cardinality({v \in votes : v.candidate_id = c.id})
        /\ SumCounts(t, 1) = total_votes(votes)

\* one candidate with both voters' ballots, another with none
C7_Witness ==
    LET t == candidates_with_counts(candidates, votes)
    IN  /\ Len(t) = 2
        /\ \E i, j \in 1..Len(t) : t[i][3] = 2 /\ t[j][3] = 0

TallyCount(vs, id) ==
    LET t == candidates_with_counts(candidates, vs)
    IN  t[CHOOSE i \in 1..Len(t) : t[i][1] = id][3]

\* C8: a successful cast adds one to the chosen candidate's count and takes
\* one from the count of the candidate the voter's ballot named before, if
\* any: nothing moves on a re-cast for the same candidate, one vote moves on a
\* change of candidate, and only a first cast raises the total, by one.
C8_CastMovesOneVote ==
    [][\A r \in Slots :
          Accepts(r)
          => LET old == VotesOf(reqs[r].user)
             IN  /\ candidates' = candidates
                 /\ total_votes(votes') = total_votes(votes) + (IF old = {} THEN 1 ELSE 0)
                 /\ \A k \in CandidateIds(candidates) :
                       TallyCount(votes', k)
                         = TallyCount(votes, k)
                             + (IF k = reqs[r].cid THEN 1 ELSE 0)
                             - (IF Ballot(reqs[r].user, k) \in old THEN 1 ELSE 0)
      ]_vars

\* the same voter's two accepted casts for the same candidate
C8_Witness ==
    \E r1, r2 \in Slots :
        /\ r1 # r2
        /\ Done(r1, "Accepted") /\ Done(r2, "Accepted")
        /\ reqs[r1].user = reqs[r2].user
        /\ reqs[r1].cid = reqs[r2].cid
        /\ TallyCount(votes, reqs[r1].cid) = 1

\* C9: voting_is_open holds exactly when no deadline is stored or the clock
\* is strictly before it; timer stop stores the current instant, which closes
\* the window at once, also when it was closed already, and the window stays
\* closed for as long as the stored deadline is not replaced.
C9_OpenIffBeforeDeadline ==
    /\ [](voting_is_open <=> (~HasDeadline \/ now < Deadline))
    /\ [][/\ \A u \in Users :
                CbAdminTimerStop(u)
                => HasDeadline' /\ Deadline' = now /\ ~voting_is_open'
          /\ (~voting_is_open /\ settings' = settings) => ~voting_is_open'
         ]_vars

\* closed by a timer stop at instant 0, and still closed later
C9_Witness ==
    /\ HasDeadline
    /\ Deadline = 0
    /\ now > 0
    /\ ~voting_is_open

\* C10: the window is open at the start; a closed window opens again in no
\* step but an admin's set_timer message, and every set_timer message that
\* is accepted stores a deadline after the current instant, so the window is
\* open right after it.
C10_ReopenOnlyBySetTimer ==
    /\ voting_is_open /\ ~HasDeadline
    /\ [][/\ (~voting_is_open /\ voting_is_open')
             => \E u \in Users, text \in TimerInputs : is_admin(u) /\ StSetTimer(u, text)
          /\ \A u \in Users, text \in TimerInputs :
                (/\ fsm[u] = "set_timer"
                 /\ fsm'[u] = "None"
                 /\ is_admin(u)
                 /\ StSetTimer(u, text))
                => HasDeadline' /\ Deadline' > now' /\ voting_is_open'
         ]_vars

\* ballots cast, the window closed, the ballots reset and a candidate removed:
\* the window is still closed
C10_Witness ==
    /\ ~voting_is_open
    /\ votes = {}
    /\ candidates = {}
    /\ nextId > 1
    /\ \E r \in Slots : Done(r, "Accepted")
\* C11: no request of a user outside the administrator set touches an
\* entity: such a user never gets an admin dialogue state or the bulk-add
\* mode, and in any sequence of such users' requests the candidates, the id
\* sequence, the gate channels and the stored deadline stay as they were and
\* a ballot changes only by its own voter's accepted cast.
C11_GuestsChangeNothing ==
    /\ [](\A u \in Guests : fsm[u] = "None" /\ u \notin mode)
    /\ [][/\ candidates' = candidates
          /\ nextId' = nextId
          /\ channels' = channels
          /\ settings' = settings
          /\ \A v \in Users :
                VotesOf(v)' # VotesOf(v)
                => \E r \in Slots : Accepts(r) /\ reqs[r].user = v /\ v \in Guests
         ]_vars

\* a guest's cast replaced the guest's own ballot after the stored deadline
\* was read; the administrator's ballot, the gate channel, the deadline and
\* both candidates are still there
C11_Witness ==
    \E r \in Slots :
        /\ Done(r, "Accepted")
        /\ reqs[r].user \in Guests
        /\ \E a \in ADMINS : VotesOf(a) # {}
        /\ HasDeadline
        /\ channels = <<"@g">>
        /\ candidates = GuestCandidates
\* the step in which administrator u's message text is handled by st_rm_candidate
Removes(u, text) ==
    /\ is_admin(u)
    /\ fsm[u] = "remove_candidate"
    /\ StRmCandidate(u, text)

\* C12 as stated: a removal by the number n, for n from 1 to the number of
\* candidates, deletes the n-th candidate in ascending id order and no other;
\* for n above the number of candidates it deletes nothing and reports that
\* nothing was found.
C12_RankRemoval ==
    [][\A u \in Users, n \in 1..(MaxId + 2) :
          Removes(u, str(n))
          => IF n <= Cardinality(candidates)
             THEN candidates' = candidates \ {OrderById(candidates)[n]}
             ELSE /\ candidates' = candidates
                  /\ rm_candidate_target(candidates, str(n)).status = "not_found"
      ]_vars
IsBlank(line) == \A k \in 1..Len(line) : line[k] = " "

\* the name the loop of call a is at
CurrentName(a) == adds[a].names[adds[a].i]

\* C13: a bulk add takes one name from each line that is not blank, and
\* handles the names one at a time: a name equal up to case to the name of a
\* current candidate, one inserted earlier by the same call included, is
\* counted as skipped and nothing is inserted; any other name is inserted
\* and counted as added.  At the end added + skipped is the number of
\* non-blank lines, and with bulk adds and removals run one after another
\* no two candidates ever have names equal up to case.
C13_BulkAddDedup ==
    /\ [](/\ UniqueNames(candidates)
          /\ \A a \in Slots :
                /\ Len(adds[a].names)
                     = Cardinality({k \in 1..Len(adds[a].lines) : ~IsBlank(adds[a].lines[k])})
                /\ \A k \in 1..Len(adds[a].names) :
                      /\ adds[a].names[k] # NoText
                      /\ Head(adds[a].names[k]) # " "
                /\ adds[a].pc \in {"check", "insert"}
                   => adds[a].added + adds[a].skipped = adds[a].i - 1
                /\ adds[a].pc = "done"
                   => adds[a].added + adds[a].skipped = Len(adds[a].names))
    /\ [][/\ \A a \in Slots :
                (adds[a].pc = "check" /\ adds'[a] # adds[a])
                => /\ candidates' = candidates
                   /\ adds'[a].added = adds[a].added
                   /\ IF \E c \in candidates : LOWER(c.name) = LOWER(CurrentName(a))
                      THEN adds'[a].skipped = adds[a].skipped + 1
                      ELSE adds'[a].skipped = adds[a].skipped /\ adds'[a].pc = "insert"
          /\ \A a \in Slots :
                (adds[a].pc = "insert" /\ adds'[a] # adds[a])
                => /\ candidates' = candidates \cup {[id |-> nextId, name |-> CurrentName(a)]}
                   /\ Cardinality(candidates') = Cardinality(candidates) + 1
                   /\ adds'[a].added = adds[a].added + 1
                   /\ adds'[a].skipped = adds[a].skipped
         ]_vars

\* one call with the lines "a" and "A": "a" was inserted, and "A" was
\* skipped because of the "a" the same call had just inserted
C13_Witness ==
    /\ adds[1].pc = "done"
    /\ adds[1].lines = <<<<"a">>, <<"A">>>>
    /\ adds[1].names = <<<<"a">>, <<"A">>>>
    /\ adds[1].added = 1
    /\ adds[1].skipped = 1
    /\ \E c \in candidates : c.name = <<"a">> /\ c.id = nextId - 1
\* C14 as stated: a removal by a name, whatever the name, digits only
\* included, deletes the first candidate whose name equals it up to case and
\* no other, deletes nothing when no candidate has that name, and reports a
\* deletion exactly when a candidate was deleted.
C14_RemoveByName ==
    [][\A u \in Users, name \in RegNames :
          Removes(u, name)
          => LET matches == {c \in candidates : LOWER(c.name) = LOWER(name)}
                 first == CHOOSE c \in matches : \A d \in matches : c.id <= d.id
                 reported == rm_candidate_target(candidates, strip(name)).status
                                \in {"deleted_id", "deleted_rank", "deleted_name"}
             IN  /\ candidates' = IF matches = {} THEN candidates ELSE candidates \ {first}
                 /\ reported <=> candidates' # candidates
      ]_vars
CountOf(cid) == Cardinality({v \in votes : v.candidate_id = cid})

\* every candidate on exactly one button, with its name and its count
ListsAll(rows) ==
    /\ Len(rows) = Cardinality(candidates)
    /\ \A c \in candidates :
          \E k \in 1..Len(rows) :
              rows[k].cid = c.id /\ rows[k].name = c.name /\ rows[k].cnt = CountOf(c.id)
    /\ \A k \in 1..Len(rows) : rows[k].idx = k

\* C15: the results view lists every candidate once, a higher count before
\* a lower one and, among equal counts, a lower id before a higher one; the
\* voting keyboard lists every candidate once in ascending id, whatever the
\* counts.
C15_ViewOrders ==
    /\ probe.op = "results"
       => /\ ListsAll(probe.rows)
          /\ \A i, j \in 1..Len(probe.rows) :
                i < j => \/ probe.rows[i].cnt > probe.rows[j].cnt
                         \/ /\ probe.rows[i].cnt = probe.rows[j].cnt
                            /\ probe.rows[i].cid < probe.rows[j].cid
    /\ probe.op = "vote_kb"
       => /\ ListsAll(probe.rows)
          /\ \A i, j \in 1..Len(probe.rows) :
                i < j => probe.rows[i].cid < probe.rows[j].cid

\* candidate 2 leads, candidates 1 and 3 tie behind it: results order 2, 1, 3
C15_Witness ==
    /\ probe.op = "results"
    /\ Len(probe.rows) = 3
    /\ probe.rows[1].cid = 2 /\ probe.rows[2].cid = 1 /\ probe.rows[3].cid = 3
    /\ probe.rows[1].cnt = 2
    /\ probe.rows[2].cnt = 1 /\ probe.rows[3].cnt = 1
RECURSIVE SumPct(_, _)
SumPct(rows, k) == IF k > Len(rows) THEN 0 ELSE rows[k].pct + SumPct(rows, k + 1)

\* C17: on both views a candidate's percentage is 0 for every candidate
\* when there is no ballot, and otherwise never above its count times 100
\* over the number of ballots; below 50 ballots, where the float product is
\* exact up to the cut, it is that quotient cut off to a whole number.  Each
\* percentage lies in 0..100, is 100 exactly when the candidate has every
\* ballot, and the percentages of one view add up to at most 100.
C17_Percentages ==
    probe.op \in {"vote_kb", "results"}
    => LET total == total_votes(votes)
       IN  /\ \A k \in 1..Len(probe.rows) :
                 LET b == probe.rows[k]
                 IN  /\ b.pct \in 0..100
                     /\ total = 0 => b.pct = 0
                     /\ total > 0 => /\ b.pct * total <= b.cnt * 100
                                     /\ b.pct = 100 <=> b.cnt = total
                     /\ (0 < total /\ total < 50) => b.cnt * 100 < (b.pct + 1) * total
           /\ SumPct(probe.rows, 1) <= 100

\* three ballots, one for each candidate: 33 + 33 + 33
C17_Witness ==
    /\ probe.op = "vote_kb"
    /\ total_votes(votes) = 3
    /\ \A k \in 1..Len(probe.rows) : probe.rows[k].pct = 33
    /\ SumPct(probe.rows, 1) = 99
\* C16: an administrator's reset leaves no ballot, whatever the store held:
\* the total and the count of every candidate are 0 after it, and the
\* candidates, the id sequence, the gate channels and the stored deadline
\* are as before.
C16_ResetEmptiesBallots ==
    [][\A u \in Users :
          (is_admin(u) /\ CbAdminResetVotes(u))
          => LET t == candidates_with_counts(candidates', votes')
             IN  /\ votes' = {}
                 /\ total_votes(votes') = 0
                 /\ Len(t) = Cardinality(candidates)
                 /\ \A k \in 1..Len(t) : t[k][3] = 0
                 /\ candidates' = candidates
                 /\ nextId' = nextId
                 /\ channels' = channels
                 /\ settings' = settings
      ]_vars

\* a ballot was accepted and the store is empty again although no candidate
\* was removed: a reset emptied it, and both candidates, the gate channel and
\* the deadline are still there
C16_Witness ==
    /\ votes = {}
    /\ \E r \in Slots : Done(r, "Accepted")
    /\ Cardinality(candidates) = nextId - 1
    /\ candidates # {}
    /\ channels # <<>>
    /\ HasDeadline
ExpectedOutcomes == {"Accepted", "VotingClosed", "NotEligible", "NoSuchCandidate"}

\* C18 as stated: every cast_vote call that has ended, ended accepted or
\* with VotingClosed, NotEligible or NoSuchCandidate, also when an
\* administrator removed the chosen candidate while the call was running.
C18_ExpectedOutcomes ==
    \A r \in Slots : reqs[r].pc = "done" => reqs[r].outcome \in ExpectedOutcomes

\* C19 as stated: a ballot is written only while the window is open, also
\* by a cast_vote call whose window check ran before the window closed.
C19_WritesOnlyWhileOpen ==
    [][\A r \in Slots : Accepts(r) => voting_is_open]_vars
\* C20 as stated: with bulk-add calls running at the same time on a
\* registry that held none of their names, every name, compared up to case,
\* is inserted at most once.
C20_InsertedOnce ==
    \A name \in Names :
        Cardinality({c \in candidates : LOWER(c.name) = LOWER(name)}) <= 1

\* C21 as stated: in every state in which an administrator is in the
\* remove_candidate step, a removal by a number n, for every n >= 0 and n = 0
\* included, that is neither the id of a candidate nor a rank from 1 to the
\* number of candidates is handled by a step that deletes nothing, reports
\* that nothing was found, and ends the remove_candidate step.  (A request
\* that fails changes no variable, so the claim is stated on the step the
\* handler can take, not on the steps taken.)
C21_NoMatchNotFound ==
    \A u \in Users, n \in 0..(MaxId + 2) :
        /\ is_admin(u)
        /\ fsm[u] = "remove_candidate"
        /\ n \notin CandidateIds(candidates)
        /\ n \notin 1..Cardinality(candidates)
        => /\ rm_candidate_target(candidates, str(n)).status = "not_found"
           /\ ENABLED (/\ StRmCandidate(u, str(n))
                       /\ candidates' = candidates
                       /\ votes' = votes
                       /\ fsm'[u] = "None")

\* C22: a removal by a number n removes at most one candidate.  When a
\* candidate has the id n, that candidate and no other is removed, so the
\* candidate at rank n, when it is another one, is kept; when no candidate has
\* the id n, the candidate at rank n in ascending id order is removed, and
\* nothing is removed when there is no such rank.
C22_IdBeforeRank ==
    [][\A u \in Users, n \in 0..(MaxId + 2) :
          Removes(u, str(n))
          => LET byId == {c \in candidates : c.id = n}
                 ordered == OrderById(candidates)
             IN  /\ Cardinality(candidates \ candidates') <= 1
                 /\ candidates' \subseteq candidates
                 /\ IF byId # {}
                    THEN /\ candidates' = candidates \ byId
                         /\ n <= Len(ordered) /\ ordered[n].id # n
                            => ordered[n] \in candidates'
                    ELSE IF n \in 1..Len(ordered)
                    THEN candidates' = candidates \ {ordered[n]}
                    ELSE candidates' = candidates
      ]_vars

\* the administrator is in the remove_candidate step, the candidate with id 2
\* is first and the one with id 3 second in ascending id order, and the
\* handler's step on the message "2" removes id 2 and keeps id 3
C22_Witness ==
    /\ fsm[1] = "remove_candidate"
    /\ CandidateIds(candidates) = {2, 3}
    /\ ENABLED (/\ Removes(1, str(2))
                /\ CandidateIds(candidates') = {3}
                /\ fsm'[1] = "None")

\* C23: every step of a cb_vote call leaves the candidates, the gate
\* channels, the stored deadline and every other voter's ballot as they were;
\* only the step that accepts the ballot changes the ballot store, and a call
\* that ends with VotingClosed, NotEligible or NoSuchCandidate leaves the
\* caller's own ballot as it was too.
C23_CastFrame ==
    [][\A r \in Slots :
          reqs'[r] # reqs[r]
          => LET u == reqs'[r].user
             IN  /\ candidates' = candidates
                 /\ nextId' = nextId
                 /\ channels' = channels
                 /\ settings' = settings
                 /\ \A v \in Users \ {u} : {b \in votes' : b.user_id = v} = VotesOf(v)
                 /\ ~Accepts(r) => votes' = votes
                 /\ /\ reqs'[r].pc = "done"
                    /\ reqs'[r].outcome \in {"VotingClosed", "NotEligible", "NoSuchCandidate"}
                    => votes' = votes
                 /\ Accepts(r) => votes' = (votes \ VotesOf(u)) \cup {Ballot(u, reqs[r].cid)}
      ]_vars

\* both voters hold a ballot; voter 1's call in slot 1 was accepted and the
\* same voter's call in slot 2, for a candidate that does not exist, ended
\* with NoSuchCandidate, and the ballot of slot 1 is still the stored one
C23_Witness ==
    /\ Done(1, "Accepted")
    /\ Done(2, "NoSuchCandidate")
    /\ reqs[1].user = 1
    /\ reqs[2].user = 1
    /\ VotesOf(1) = {Ballot(1, reqs[1].cid)}
    /\ VotesOf(2) # {}
    /\ Cardinality(candidates) = MaxCast

\* C24 as stated: in a voting message whose text and keyboard one cb_vote
\* call rendered and put in place together, the total in the text equals the
\* sum of the counts on the keyboard, also when other voters' cb_vote calls
\* and an administrator's reset ran while the message was rendered.
C24_TotalIsSum ==
    \A r \in Slots :
        shown[r].pc = "shown" /\ shown[r].edit = "text"
        => shown[r].total = sum_cnt(shown[r].rows)
====
